---- MODULE Spec2Model ----
(***************************************************************************)
(* A model of the two command-line scripts of the repository:              *)
(*   src/generate_integrated_fast.py  (model cache, generation facade)     *)
(*   src/generate_video_from_image.py (reasoning-file parser, prompt       *)
(*                                     enhancement, subprocess invoker)    *)
(* Python strings are sequences of one-character strings, Python's None is *)
(* the value None, and an exception is a tagged outcome.                   *)
(***************************************************************************)
EXTENDS Integers, Sequences, FiniteSets, TLC

VARIABLES
    \* ---- generate_video_from_image.py: read_reasoning_file ----
    content,        \* the text of the file handed to read_reasoning_file
    parsePc,        \* "input" | "returned"
    data,           \* the dict read_reasoning_file returned, or None
    \* ---- generate_video_from_image.py: main ----
    mainPc,         \* "start" | "read" | "prompt" | "video" | "report" | "done" | "exited"
    args,           \* the parsed command line: [api_key, skip_claude]
    environ,        \* os.environ.get("ANTHROPIC_API_KEY")
    files,          \* the file system: [image_exists, text_exists, text]
    api_key,        \* main's api_key
    reasoning,      \* main's reasoning
    original_prompt,\* main's original_prompt
    video_prompt,   \* main's video_prompt
    parseCalls,     \* calls of read_reasoning_file so far
    llmCalls,       \* calls of generate_video_prompt_with_claude so far
    llmOutcome,     \* None | "returned" | "raised": how the last such call ended
    subprocessCalls,\* calls of generate_video (the generation subprocess) so far
    completePrinted,\* the "COMPLETE!" banner of lines 315-317 was printed
    exitCode,       \* the exit code of the process once it has ended, else None
    \* ---- generate_video_from_image.py: generate_video ----
    gvPc,           \* "called" | "returned" | "exited"
    gvArgs,         \* the arguments of the call
    cmd,            \* the command line built, or None
    childRuns,      \* runs of subprocess.run so far
    childOutcome,   \* how the child ended: [kind, code], or None
    returncode,     \* result.returncode, or None
    gvExit,         \* the exit status of the wrapping process once ended, else None
    \* ---- generate_integrated_fast.py: get_generator ----
    MODEL_CACHE,    \* _MODEL_CACHE: cache key -> WanFastGenerator instance
    created,        \* WanFastGenerator objects constructed so far (object identity)
    calls,          \* the get_generator calls so far, in order, each with its outcome
    \* ---- generate_integrated_fast.py: WanFastGenerator.generate ----
    self,           \* the generator generate is called on
    generates,      \* the calls of generate so far, in order, each with its outcome
    pipelineCalls,  \* the calls of pipeline.prepare_source and pipeline.generate so far
    written         \* the files cache_video has written so far

parseVars == <<content, parsePc, data>>

mainVars ==
    <<mainPc, args, environ, files, api_key, reasoning, original_prompt, video_prompt,
      parseCalls, llmCalls, llmOutcome, subprocessCalls, completePrinted, exitCode>>

invokeVars == <<gvPc, gvArgs, cmd, childRuns, childOutcome, returncode, gvExit>>

cacheVars == <<MODEL_CACHE, created, calls>>

genVars == <<self, generates, pipelineCalls, written>>

vars == <<parseVars, mainVars, invokeVars, cacheVars, genVars>>

\* Python's None: a value no string (a sequence of characters) and no number equals.
None == <<"None_value">>

(***************************************************************************)
(* Python's str methods, on sequences of characters.                       *)
(***************************************************************************)

\* The characters str.strip() removes (the ASCII ones a text file holds).
Whitespace == {" ", "\n", "\t", "\r"}

\* s[i:] for a 1-based first index i.
Tail_from(s, i) == SubSeq(s, i, Len(s))

\* s.startswith(p)
startswith(s, p) == Len(p) <= Len(s) /\ SubSeq(s, 1, Len(p)) = p

RECURSIVE find_from(_, _, _)
\* s.find(sub, i-1) + 1: the least index >= i where sub occurs in s, 0 if none.
find_from(s, sub, i) ==
    IF i + Len(sub) - 1 > Len(s) THEN 0
    ELSE IF SubSeq(s, i, i + Len(sub) - 1) = sub THEN i
    ELSE find_from(s, sub, i + 1)

\* sub in s
contains(s, sub) == find_from(s, sub, 1) # 0

RECURSIVE split(_, _)
\* s.split(sep) for a non-empty sep: the pieces between the occurrences of sep,
\* found left to right without overlap.
split(s, sep) ==
    LET i == find_from(s, sep, 1)
    IN  IF i = 0 THEN <<s>>
        ELSE <<SubSeq(s, 1, i - 1)>> \o split(Tail_from(s, i + Len(sep)), sep)

RECURSIVE lstrip(_)
lstrip(s) ==
    IF s # <<>> /\ Head(s) \in Whitespace THEN lstrip(Tail(s)) ELSE s

RECURSIVE rstrip(_)
rstrip(s) ==
    IF s # <<>> /\ s[Len(s)] \in Whitespace THEN rstrip(SubSeq(s, 1, Len(s) - 1)) ELSE s

\* s.strip()
strip(s) == rstrip(lstrip(s))

RECURSIVE join(_, _)
\* sep.join(items)
join(sep, items) ==
    IF items = <<>> THEN <<>>
    ELSE IF Len(items) = 1 THEN items[1]
    ELSE items[1] \o sep \o join(sep, Tail(items))

\* s.replace(old, ""): every occurrence of old, left to right, removed.
replace_with_empty(s, old) == join(<<>>, split(s, old))

(***************************************************************************)
(* generate_video_from_image.py: read_reasoning_file                       *)
(***************************************************************************)

END_MARKER ==
    <<"-", "-", "-", " ", "E", "N", "D", " ", "O", "F", " ",
      "R", "E", "A", "S", "O", "N", "I", "N", "G", " ", "-", "-", "-">>

CUE_PHRASE ==
    <<"G", "e", "n", "e", "r", "a", "t", "i", "n", "g", " ",
      "i", "m", "a", "g", "e", " ", "w", "i", "t", "h", " ",
      "p", "r", "o", "m", "p", "t", ":">>

CARTOON == <<"C", "a", "r", "t", "o", "o", "n">>

\* The test of line 38.
is_cue_line(line) ==
    contains(line, CUE_PHRASE) \/ startswith(strip(line), CARTOON)

RECURSIVE prompt_lines(_, _)
\* Lines 40-43: the stripped non-empty lines from index j on.
prompt_lines(lines, j) ==
    IF j > Len(lines) THEN <<>>
    ELSE IF strip(lines[j]) # <<>>
         THEN <<strip(lines[j])>> \o prompt_lines(lines, j + 1)
         ELSE prompt_lines(lines, j + 1)

\* Line 44.
prompt_at(lines, i) ==
    strip(replace_with_empty(join(<<" ">>, prompt_lines(lines, i)), CUE_PHRASE))

RECURSIVE scan_lines_next(_, _)
\* scan_lines taking the prompt from the lines after the cue line only.
scan_lines_next(lines, i) ==
    IF i > Len(lines) THEN <<>>
    ELSE IF is_cue_line(lines[i]) THEN prompt_at(lines, i + 1)
    ELSE scan_lines_next(lines, i + 1)

RECURSIVE scan_lines(_, _)
\* Lines 36-45: the loop over the lines, left at the first cue line.
scan_lines(lines, i) ==
    IF i > Len(lines) THEN <<>>
    ELSE IF is_cue_line(lines[i]) THEN prompt_at(lines, i)
    ELSE scan_lines(lines, i + 1)

\* read_reasoning_file cutting the reasoning at the last marker instead of the first.
read_reasoning_file_last(text) ==
    LET parts == split(text, END_MARKER)
    IN  IF Len(parts) >= 2
        THEN LET remaining == strip(parts[Len(parts)])
                 lines == split(remaining, <<"\n">>)
                 scanned == scan_lines(lines, 1)
             IN  [reasoning |->
                      strip(join(END_MARKER, SubSeq(parts, 1, Len(parts) - 1))),
                  original_prompt |->
                      IF scanned = <<>> THEN remaining ELSE scanned]
        ELSE [reasoning |-> SubSeq(text, 1, Len(text) \div 2),
              original_prompt |-> Tail_from(text, Len(text) \div 2 + 1)]

read_reasoning_file(text) ==
    LET parts == split(text, END_MARKER)
    IN  IF Len(parts) >= 2
        THEN LET remaining == strip(parts[2])
                 lines == split(remaining, <<"\n">>)
                 scanned == scan_lines(lines, 1)
             IN  [reasoning |-> strip(parts[1]),
                  original_prompt |->
                      IF scanned = <<>> THEN remaining ELSE scanned]
        ELSE [reasoning |-> SubSeq(text, 1, Len(text) \div 2),
              original_prompt |-> Tail_from(text, Len(text) \div 2 + 1)]

\* The pieces the input texts are made of.
Chunks ==
    {<<"x">>, <<" ">>, <<"\n">>, <<"\n", " ", "\n">>, END_MARKER, CUE_PHRASE, CARTOON}

MaxChunks == 4

RECURSIVE TextsOf(_)
\* Every concatenation of at most n chunks.
TextsOf(n) ==
    IF n = 0 THEN {<<>>}
    ELSE LET shorter == TextsOf(n - 1)
         IN  shorter \cup {t \o c : t \in shorter, c \in Chunks}

Texts == TextsOf(MaxChunks)

\* The variables of a component that a specification leaves out.
ParseIdle == content = <<>> /\ parsePc = "idle" /\ data = None

MainIdle ==
    /\ mainPc = "idle"
    /\ args = None /\ environ = None /\ files = None
    /\ api_key = None /\ reasoning = None /\ original_prompt = None
    /\ video_prompt = None
    /\ parseCalls = 0 /\ llmCalls = 0 /\ llmOutcome = None
    /\ subprocessCalls = 0 /\ completePrinted = FALSE /\ exitCode = None

InvokeIdle ==
    /\ gvPc = "idle" /\ gvArgs = None /\ cmd = None /\ childRuns = 0
    /\ childOutcome = None /\ returncode = None /\ gvExit = None

CacheIdle == MODEL_CACHE = <<>> /\ created = 0 /\ calls = <<>>

GenIdle == self = None /\ generates = <<>> /\ pipelineCalls = <<>> /\ written = <<>>

ParseInit ==
    /\ content \in Texts
    /\ parsePc = "input"
    /\ data = None
    /\ MainIdle /\ InvokeIdle /\ CacheIdle /\ GenIdle

ReadReasoningFile ==
    /\ parsePc = "input"
    /\ data' = read_reasoning_file(content)
    /\ parsePc' = "returned"
    /\ UNCHANGED <<content, mainVars, invokeVars, cacheVars, genVars>>

ParseNext == ReadReasoningFile

SpecParse == ParseInit /\ [][ParseNext]_vars

(***************************************************************************)
(* Properties of read_reasoning_file.  What the text holds is stated here  *)
(* from the text itself, by position, not through split.                   *)
(***************************************************************************)

\* The positions of text where the marker starts.
MarkerStarts(text) ==
    {i \in 1..(Len(text) - Len(END_MARKER) + 1) :
        SubSeq(text, i, i + Len(END_MARKER) - 1) = END_MARKER}

HasMarker(text) == MarkerStarts(text) # {}

FirstMarker(text) ==
    CHOOSE i \in MarkerStarts(text) : \A j \in MarkerStarts(text) : i <= j

\* r is s without its leading and trailing whitespace.
IsTrimOf(r, s) ==
    \E i \in 1..(Len(s) + 1), j \in 0..Len(s) :
        /\ i <= j + 1
        /\ r = SubSeq(s, i, j)
        /\ \A k \in 1..(i - 1) : s[k] \in Whitespace
        /\ \A k \in (j + 1)..Len(s) : s[k] \in Whitespace
        /\ r # <<>> => (r[1] \notin Whitespace /\ r[Len(r)] \notin Whitespace)

BeforeMarker(text) == SubSeq(text, 1, FirstMarker(text) - 1)

\* The text from the end of the first marker to the start of the next one that
\* does not overlap it (to the end of the text when there is none).
AfterMarker(text) ==
    LET from == FirstMarker(text) + Len(END_MARKER)
        later == {i \in MarkerStarts(text) : i >= from}
        upto == IF later = {} THEN Len(text)
                ELSE (CHOOSE i \in later : \A j \in later : i <= j) - 1
    IN  SubSeq(text, from, upto)

\* s from its first to its last character that is not whitespace.
Trimmed(s) ==
    LET solid == {k \in 1..Len(s) : s[k] \notin Whitespace}
    IN  IF solid = {} THEN <<>>
        ELSE SubSeq(s, CHOOSE a \in solid : \A k \in solid : a <= k,
                       CHOOSE b \in solid : \A k \in solid : b >= k)

\* The remainder the cue line is looked for in: AfterMarker, trimmed.
Remainder(text) == Trimmed(AfterMarker(text))

RemainderLines(text) == split(Remainder(text), <<"\n">>)

CueLines(text) ==
    {i \in 1..Len(RemainderLines(text)) :
        \/ contains(RemainderLines(text)[i], CUE_PHRASE)
        \/ startswith(strip(RemainderLines(text)[i]), CARTOON)}

CueFound(text) == CueLines(text) # {}

FirstCue(text) == CHOOSE i \in CueLines(text) : \A j \in CueLines(text) : i <= j

\* The non-empty lines from the first cue line on, each trimmed, joined by single
\* spaces, with the cue phrase removed and the result trimmed.
CuePrompt(text) ==
    LET lines == RemainderLines(text)
        from == SubSeq(lines, FirstCue(text), Len(lines))
        trimmed == [k \in 1..Len(from) |-> strip(from[k])]
        kept == SelectSeq(trimmed, LAMBDA l : l # <<>>)
    IN  strip(replace_with_empty(join(<<" ">>, kept), CUE_PHRASE))

\* C9: with the marker in the text, reasoning is the text strictly before the first
\* marker, trimmed of surrounding whitespace; without the marker, reasoning is the
\* first floor(len/2) characters and original_prompt the rest, so that reasoning
\* followed by original_prompt is the text.
C9_ReasoningSplit ==
    parsePc = "returned" =>
        IF HasMarker(content)
        THEN IsTrimOf(data.reasoning, BeforeMarker(content))
        ELSE /\ Len(data.reasoning) = Len(content) \div 2
             /\ data.reasoning \o data.original_prompt = content

\* C9 witness: a text with two markers and whitespace around the text before the
\* first, parsed.
C9_Witness ==
    /\ parsePc = "returned"
    /\ Cardinality(MarkerStarts(content)) >= 2
    /\ data.reasoning # <<>>
    /\ data.reasoning # BeforeMarker(content)

\* C10 as stated: with the marker in the text, whenever a cue line is found in the
\* remainder, original_prompt is the concatenation of the non-empty lines from the
\* cue line on with the cue phrase stripped; when none is found it is the remainder.
C10_AsStated ==
    (parsePc = "returned" /\ HasMarker(content)) =>
        IF CueFound(content)
        THEN data.original_prompt = CuePrompt(content)
        ELSE data.original_prompt = Remainder(content)

\* C10 amended: original_prompt is that concatenation when a cue line is found and
\* the concatenation is not empty; it is the whole remainder when no cue line is
\* found and also when the concatenation is empty.
C10_CuePromptOrRemainder ==
    (parsePc = "returned" /\ HasMarker(content)) =>
        IF CueFound(content) /\ CuePrompt(content) # <<>>
        THEN data.original_prompt = CuePrompt(content)
        ELSE data.original_prompt = Remainder(content)

\* C10 witness: the cue line is not the first line of the remainder, and the prompt
\* taken from it is not the remainder.
C10_Witness ==
    /\ parsePc = "returned"
    /\ HasMarker(content)
    /\ CueFound(content)
    /\ FirstCue(content) > 1
    /\ data.original_prompt = CuePrompt(content)
    /\ data.original_prompt # Remainder(content)

(***************************************************************************)
(* generate_video_from_image.py: main                                      *)
(***************************************************************************)

\* bool(v) of an optional string.
truthy(v) == v # None /\ v # <<>>

\* a or b
py_or(a, b) == IF truthy(a) THEN a ELSE b

\* What --api-key and ANTHROPIC_API_KEY can hold: unset, empty, a key.
KeyValues == {None, <<>>, <<"s", "k">>}

MaxFileChunks == 2

\* The texts the reasoning file of a run of main can hold.
FileTexts == TextsOf(MaxFileChunks)

\* What the endpoint's first text block can hold when the call succeeds.
Responses == {<<"v">>, <<" ", "v", "\n">>}

MainInit ==
    /\ mainPc = "start"
    /\ args \in [api_key : KeyValues, skip_claude : BOOLEAN]
    /\ environ \in KeyValues
    /\ files \in [image_exists : BOOLEAN, text_exists : BOOLEAN, text : FileTexts]
    /\ api_key = None /\ reasoning = None /\ original_prompt = None
    /\ video_prompt = None
    /\ parseCalls = 0 /\ llmCalls = 0 /\ llmOutcome = None
    /\ subprocessCalls = 0 /\ completePrinted = FALSE /\ exitCode = None
    /\ ParseIdle /\ InvokeIdle /\ CacheIdle /\ GenIdle

\* MainValidate without the test of the text file (lines 244-246 left out).
MainValidate_NoTextTest ==
    /\ mainPc = "start"
    /\ IF ~files.image_exists
       THEN mainPc' = "exited" /\ exitCode' = 1 /\ UNCHANGED api_key
       ELSE /\ api_key' = py_or(args.api_key, environ)
            /\ IF ~truthy(api_key') /\ ~args.skip_claude
               THEN mainPc' = "exited" /\ exitCode' = 1
               ELSE mainPc' = "read" /\ UNCHANGED exitCode
    /\ UNCHANGED <<args, environ, files, reasoning, original_prompt, video_prompt,
                   parseCalls, llmCalls, llmOutcome, subprocessCalls, completePrinted>>
    /\ UNCHANGED <<parseVars, invokeVars, cacheVars, genVars>>

\* Lines 237-253: the input validation and the API key.
MainValidate ==
    /\ mainPc = "start"
    /\ IF ~files.image_exists
       THEN mainPc' = "exited" /\ exitCode' = 1 /\ UNCHANGED api_key
       ELSE IF ~files.text_exists
       THEN mainPc' = "exited" /\ exitCode' = 1 /\ UNCHANGED api_key
       ELSE /\ api_key' = py_or(args.api_key, environ)
            /\ IF ~truthy(api_key') /\ ~args.skip_claude
               THEN mainPc' = "exited" /\ exitCode' = 1
               ELSE mainPc' = "read" /\ UNCHANGED exitCode
    /\ UNCHANGED <<args, environ, files, reasoning, original_prompt, video_prompt,
                   parseCalls, llmCalls, llmOutcome, subprocessCalls, completePrinted>>
    /\ UNCHANGED <<parseVars, invokeVars, cacheVars, genVars>>

\* Lines 263-274: the reasoning file is read and parsed.
MainReadFile ==
    /\ mainPc = "read"
    /\ LET parsed == read_reasoning_file(files.text)
       IN  /\ reasoning' = parsed.reasoning
           /\ original_prompt' = parsed.original_prompt
    /\ parseCalls' = parseCalls + 1
    /\ mainPc' = "prompt"
    /\ UNCHANGED <<args, environ, files, api_key, video_prompt, llmCalls, llmOutcome,
                   subprocessCalls, completePrinted, exitCode>>
    /\ UNCHANGED <<parseVars, invokeVars, cacheVars, genVars>>

\* Lines 277-279: --skip-claude.
MainSkipClaude ==
    /\ mainPc = "prompt"
    /\ args.skip_claude
    /\ video_prompt' = original_prompt
    /\ mainPc' = "video"
    /\ UNCHANGED <<args, environ, files, api_key, reasoning, original_prompt, parseCalls,
                   llmCalls, llmOutcome, subprocessCalls, completePrinted, exitCode>>
    /\ UNCHANGED <<parseVars, invokeVars, cacheVars, genVars>>

\* MainClaudeReturns taken whether or not --skip-claude is set.
MainClaudeReturns_IgnoresSkip ==
    /\ mainPc = "prompt"
    /\ \E response \in Responses : video_prompt' = strip(response)
    /\ llmCalls' = llmCalls + 1
    /\ llmOutcome' = "returned"
    /\ mainPc' = "video"
    /\ UNCHANGED <<args, environ, files, api_key, reasoning, original_prompt, parseCalls,
                   subprocessCalls, completePrinted, exitCode>>
    /\ UNCHANGED <<parseVars, invokeVars, cacheVars, genVars>>

\* Lines 280-295 with lines 61-143: generate_video_prompt_with_claude is called and
\* returns the endpoint's first text block, stripped.
MainClaudeReturns ==
    /\ mainPc = "prompt"
    /\ ~args.skip_claude
    /\ \E response \in Responses : video_prompt' = strip(response)
    /\ llmCalls' = llmCalls + 1
    /\ llmOutcome' = "returned"
    /\ mainPc' = "video"
    /\ UNCHANGED <<args, environ, files, api_key, reasoning, original_prompt, parseCalls,
                   subprocessCalls, completePrinted, exitCode>>
    /\ UNCHANGED <<parseVars, invokeVars, cacheVars, genVars>>

\* MainClaudeRaises without the except clause: the exception ends the process.
MainClaudeRaises_Uncaught ==
    /\ mainPc = "prompt"
    /\ ~args.skip_claude
    /\ llmCalls' = llmCalls + 1
    /\ llmOutcome' = "raised"
    /\ exitCode' = 1
    /\ mainPc' = "exited"
    /\ UNCHANGED <<args, environ, files, api_key, reasoning, original_prompt, parseCalls,
                   video_prompt, subprocessCalls, completePrinted>>
    /\ UNCHANGED <<parseVars, invokeVars, cacheVars, genVars>>

\* Lines 280-291 and 296-299: generate_video_prompt_with_claude raises (the image
\* cannot be read, the transport or the API fails, the response holds no text
\* block) and the except clause falls back to the original prompt.
MainClaudeRaises ==
    /\ mainPc = "prompt"
    /\ ~args.skip_claude
    /\ llmCalls' = llmCalls + 1
    /\ llmOutcome' = "raised"
    /\ video_prompt' = original_prompt
    /\ mainPc' = "video"
    /\ UNCHANGED <<args, environ, files, api_key, reasoning, original_prompt, parseCalls,
                   subprocessCalls, completePrinted, exitCode>>
    /\ UNCHANGED <<parseVars, invokeVars, cacheVars, genVars>>

\* Lines 301-313: the "GENERATING VIDEO..." banner.  The call of generate_video is
\* commented out (lines 306-313), so no subprocess is run.
MainGenerateVideoStep ==
    /\ mainPc = "video"
    /\ mainPc' = "report"
    /\ UNCHANGED <<args, environ, files, api_key, reasoning, original_prompt, video_prompt,
                   parseCalls, llmCalls, llmOutcome, subprocessCalls, completePrinted,
                   exitCode>>
    /\ UNCHANGED <<parseVars, invokeVars, cacheVars, genVars>>

\* Lines 315-317: the "COMPLETE!" banner; main returns and the process exits with 0.
MainComplete ==
    /\ mainPc = "report"
    /\ completePrinted' = TRUE
    /\ exitCode' = 0
    /\ mainPc' = "done"
    /\ UNCHANGED <<args, environ, files, api_key, reasoning, original_prompt, video_prompt,
                   parseCalls, llmCalls, llmOutcome, subprocessCalls>>
    /\ UNCHANGED <<parseVars, invokeVars, cacheVars, genVars>>

MainNext ==
    \/ MainValidate
    \/ MainReadFile
    \/ MainSkipClaude
    \/ MainClaudeReturns
    \/ MainClaudeRaises
    \/ MainGenerateVideoStep
    \/ MainComplete

SpecMain == MainInit /\ [][MainNext]_vars

(***************************************************************************)
(* Properties of main.                                                     *)
(***************************************************************************)

\* Neither --api-key nor ANTHROPIC_API_KEY holds a key.
NoApiKey == args.api_key \in {None, <<>>} /\ environ \in {None, <<>>}

\* The run does not pass the validation of lines 239-253.
InvalidInput ==
    \/ ~files.image_exists
    \/ ~files.text_exists
    \/ (NoApiKey /\ ~args.skip_claude)

\* Control is past the choice of the final prompt.
PromptChosen == mainPc \in {"video", "report", "done"}

\* C3: with the image file missing, the text file missing, or no API key and no
\* --skip-claude, main ends with exit code 1, before the reasoning file is parsed
\* and before any call to the LLM endpoint.
C3_InvalidInputExitsOne ==
    (InvalidInput /\ mainPc # "start") =>
        /\ mainPc = "exited"
        /\ exitCode = 1
        /\ parseCalls = 0
        /\ llmCalls = 0

\* C3 witness: both files exist, no key is given and --skip-claude is not set, and
\* main has ended.
C3_Witness ==
    /\ files.image_exists /\ files.text_exists
    /\ NoApiKey /\ ~args.skip_claude
    /\ mainPc = "exited"

\* C4: with --skip-claude set and the files present, the LLM is never called,
\* with or without an API key, and the final video prompt is the original_prompt
\* read_reasoning_file returned, unchanged.
C4_SkipClaudePassesPrompt ==
    (args.skip_claude /\ mainPc # "start") =>
        /\ llmCalls = 0
        /\ PromptChosen =>
              /\ video_prompt = original_prompt
              /\ \E r \in {read_reasoning_file(files.text)} :
                    video_prompt = r.original_prompt

\* C4 witness: a run with --skip-claude and an API key that has reached its end.
C4_Witness ==
    /\ args.skip_claude
    /\ truthy(api_key)
    /\ mainPc = "done"
    /\ video_prompt # <<>>

\* C5: when generate_video_prompt_with_claude raises, main has called it exactly
\* once, the final video prompt is the unmodified original_prompt, control goes
\* on to the video-generation step, and the process does not end with a non-zero
\* exit code.  The LLM is never called more than once.
C5_ClaudeFailureFallsBack ==
    /\ llmCalls <= 1
    /\ llmOutcome = "raised" =>
          /\ ~args.skip_claude
          /\ llmCalls = 1
          /\ video_prompt = original_prompt
          /\ PromptChosen
          /\ mainPc = "done" => exitCode = 0

\* C5 witness: the call raised and the run went on to its end with exit code 0.
C5_Witness ==
    /\ llmOutcome = "raised"
    /\ mainPc = "done"
    /\ exitCode = 0
    /\ original_prompt # <<>>

\* C7: on every run that passes input validation the generation subprocess has
\* been invoked exactly once when the completion message is printed.
C7_SubprocessOnceBeforeComplete ==
    completePrinted => subprocessCalls = 1

(***************************************************************************)
(* generate_video_from_image.py: generate_video                            *)
(* A command-line word is written as a sequence of one piece holding its    *)
(* text, the empty string being the empty sequence.                        *)
(***************************************************************************)

\* Lines 156-169: the command line.
build_cmd(a) ==
    << <<"sys.executable">>, <<"generate.py">>, <<"--task">>, a.task, <<"--size">>,
       a.size, <<"--ckpt_dir">>, a.ckpt_dir, <<"--prompt">>, a.prompt >>
    \o (IF truthy(a.output_dir) THEN << <<"--output_dir">>, a.output_dir >> ELSE <<>>)
    \o (IF truthy(a.additional_args) THEN a.additional_args ELSE <<>>)

MaxExitCode == 3

\* The exit codes a child can return: 0..255, of which the model takes the low
\* ones and the highest.
ExitCodes == (0..MaxExitCode) \cup {255}

\* The signals that can end the child instead (SIGKILL, SIGTERM).
Signals == {9, 15}

ChildOutcomes ==
    [kind : {"exit"}, code : ExitCodes] \cup [kind : {"signal"}, code : Signals]

\* subprocess.run(...).returncode: the exit code, or -N for a child ended by
\* signal N.
returncode_of(outcome) ==
    IF outcome.kind = "exit" THEN outcome.code ELSE 0 - outcome.code

\* The exit status sys.exit(n) gives the process: the low 8 bits of n.
exit_status(n) == n % 256

InvokeInit ==
    /\ gvPc = "called"
    /\ gvArgs \in [prompt : {<<"a cat">>, <<>>},
                   task : {<<"t2v-14B">>},
                   size : {<<"1280*720">>},
                   ckpt_dir : {<<"./Wan2.1-T2V-14B">>},
                   output_dir : {None, <<>>, <<"out">>},
                   additional_args : {None, <<>>, << <<"--frame_num">>, <<"81">> >>}]
    /\ cmd = None /\ childRuns = 0 /\ childOutcome = None
    /\ returncode = None /\ gvExit = None
    /\ ParseIdle /\ MainIdle /\ CacheIdle /\ GenIdle

\* GenerateVideoFails ending the process with exit code 1 whatever the child returned.
GenerateVideoFails_ExitsOne ==
    /\ gvPc = "called"
    /\ \E outcome \in ChildOutcomes :
          /\ returncode_of(outcome) # 0
          /\ childOutcome' = outcome
          /\ returncode' = returncode_of(outcome)
          /\ gvExit' = 1
    /\ cmd' = build_cmd(gvArgs)
    /\ childRuns' = childRuns + 1
    /\ gvPc' = "exited"
    /\ UNCHANGED gvArgs
    /\ UNCHANGED <<parseVars, mainVars, cacheVars, genVars>>

\* Lines 156-180: the command is built, the child runs once and ends with a
\* non-zero returncode, and sys.exit(result.returncode) ends the process.
GenerateVideoFails ==
    /\ gvPc = "called"
    /\ \E outcome \in ChildOutcomes :
          /\ returncode_of(outcome) # 0
          /\ childOutcome' = outcome
          /\ returncode' = returncode_of(outcome)
          /\ gvExit' = exit_status(returncode_of(outcome))
    /\ cmd' = build_cmd(gvArgs)
    /\ childRuns' = childRuns + 1
    /\ gvPc' = "exited"
    /\ UNCHANGED gvArgs
    /\ UNCHANGED <<parseVars, mainVars, cacheVars, genVars>>

\* Lines 156-176 and 181-182: the child runs once and returns 0; generate_video
\* returns.
GenerateVideoSucceeds ==
    /\ gvPc = "called"
    /\ \E outcome \in ChildOutcomes :
          /\ returncode_of(outcome) = 0
          /\ childOutcome' = outcome
          /\ returncode' = returncode_of(outcome)
    /\ cmd' = build_cmd(gvArgs)
    /\ childRuns' = childRuns + 1
    /\ gvPc' = "returned"
    /\ UNCHANGED <<gvArgs, gvExit>>
    /\ UNCHANGED <<parseVars, mainVars, cacheVars, genVars>>

InvokeNext == GenerateVideoFails \/ GenerateVideoSucceeds

SpecInvoke == InvokeInit /\ [][InvokeNext]_vars

\* C6: for every exit code c the child returns, if c is not 0 the wrapping process
\* ends with exit code exactly c, and if c is 0 generate_video returns without
\* ending the process; the child is run exactly once per call.
C6_ExitCodeMirrored ==
    (gvPc # "called" /\ childOutcome.kind = "exit") =>
        /\ childRuns = 1
        /\ childOutcome.code # 0 => (gvPc = "exited" /\ gvExit = childOutcome.code)
        /\ childOutcome.code = 0 => (gvPc = "returned" /\ gvExit = None)

\* C6 witness: the child returned an exit code above 1 and the process has ended.
C6_Witness ==
    /\ gvPc = "exited"
    /\ childOutcome.kind = "exit"
    /\ childOutcome.code > 1
    /\ childRuns = 1

(***************************************************************************)
(* generate_integrated_fast.py: WanFastGenerator.__init__ and get_generator *)
(***************************************************************************)

RECURSIVE digits(_)
\* The decimal digits of a natural number.
digits(n) ==
    LET d == <<"0", "1", "2", "3", "4", "5", "6", "7", "8", "9">>[(n % 10) + 1]
    IN  IF n < 10 THEN <<d>> ELSE digits(n \div 10) \o <<d>>

\* f"{v}" of an int.
format_int(n) == IF n < 0 THEN <<"-">> \o digits(0 - n) ELSE digits(n)

\* f"{v}" of an optional string: the string itself, and "None" for None.
format_str(v) == IF v = None THEN <<"N", "o", "n", "e">> ELSE v

\* Line 179.
cache_key(task, ckpt_dir, device_id) ==
    format_str(task) \o <<"_">> \o format_str(ckpt_dir) \o <<"_">> \o format_int(device_id)

VACE_1_3B == <<"v", "a", "c", "e", "-", "1", ".", "3", "B">>

T2V_14B == <<"t", "2", "v", "-", "1", "4", "B">>

\* The task names wan.configs.WAN_CONFIGS has an entry for (of the library's
\* seven, one of the vace family and one outside it).
WAN_CONFIGS == {VACE_1_3B, T2V_14B}

\* The arguments get_generator is called with.
TaskInputs == {VACE_1_3B, T2V_14B, VACE_1_3B \o <<"_", "a">>}

CkptInputs == {None, <<"N", "o", "n", "e">>, <<"b">>, <<"a", "_", "b">>}

DeviceInputs == {0, 12}

\* Lines 46-70: what WanFastGenerator(task, ckpt_dir, device_id) gives: the new
\* object, or the exception raised.  loads tells whether wan.WanVace loads the
\* checkpoint; id is the identity of the new object.
WanFastGenerator(task, ckpt_dir, device_id, loads, id) ==
    IF task \notin WAN_CONFIGS
    THEN [raised |-> "KeyError"]
    ELSE IF contains(task, <<"v", "a", "c", "e">>)
    THEN IF loads
         THEN [raised |-> "", id |-> id, task |-> task, ckpt_dir |-> ckpt_dir,
               device_id |-> device_id]
         ELSE [raised |-> "LoadError"]
    ELSE [raised |-> "NotImplementedError"]

\* wan.WanVace can load a checkpoint only from a directory it is given.
CanLoad(ckpt_dir) == IF ckpt_dir = None THEN {FALSE} ELSE {TRUE, FALSE}

MaxCalls == 3

CacheInit ==
    /\ MODEL_CACHE = <<>>
    /\ created = 0
    /\ calls = <<>>
    /\ ParseIdle /\ MainIdle /\ InvokeIdle /\ GenIdle

\* Lines 179-181 and 188-191: the key is in the cache and its entry is returned.
GetGeneratorCached ==
    /\ Len(calls) < MaxCalls
    /\ \E task \in TaskInputs, ckpt_dir \in CkptInputs, device_id \in DeviceInputs :
          LET key == cache_key(task, ckpt_dir, device_id)
          IN  /\ key \in DOMAIN MODEL_CACHE
              /\ calls' = Append(calls,
                     [task |-> task, ckpt_dir |-> ckpt_dir, device_id |-> device_id,
                      constructor_ran |-> FALSE, raised |-> "",
                      returned |-> MODEL_CACHE[key].id])
    /\ UNCHANGED <<MODEL_CACHE, created>>
    /\ UNCHANGED <<parseVars, mainVars, invokeVars, genVars>>

\* Lines 179-187 and 191: the key is not in the cache, the constructor runs to its
\* end, and the new object is stored under the key and returned.
GetGeneratorCreates ==
    /\ Len(calls) < MaxCalls
    /\ \E task \in TaskInputs, ckpt_dir \in CkptInputs, device_id \in DeviceInputs :
          \E loads \in CanLoad(ckpt_dir) :
            LET key == cache_key(task, ckpt_dir, device_id)
                made == WanFastGenerator(task, ckpt_dir, device_id, loads, created + 1)
            IN  /\ key \notin DOMAIN MODEL_CACHE
                /\ made.raised = ""
                /\ MODEL_CACHE' = (key :> made) @@ MODEL_CACHE
                /\ created' = created + 1
                /\ calls' = Append(calls,
                       [task |-> task, ckpt_dir |-> ckpt_dir, device_id |-> device_id,
                        constructor_ran |-> TRUE, raised |-> "",
                        returned |-> made.id])
    /\ UNCHANGED <<parseVars, mainVars, invokeVars, genVars>>

\* GetGeneratorRaises leaving an entry without a generator under the key.
GetGeneratorRaises_StoresPartial ==
    /\ Len(calls) < MaxCalls
    /\ \E task \in TaskInputs, ckpt_dir \in CkptInputs, device_id \in DeviceInputs :
          \E loads \in CanLoad(ckpt_dir) :
            LET key == cache_key(task, ckpt_dir, device_id)
                made == WanFastGenerator(task, ckpt_dir, device_id, loads, created + 1)
            IN  /\ key \notin DOMAIN MODEL_CACHE
                /\ made.raised # ""
                /\ MODEL_CACHE' = (key :> [raised |-> made.raised, id |-> 0]) @@ MODEL_CACHE
                /\ calls' = Append(calls,
                       [task |-> task, ckpt_dir |-> ckpt_dir, device_id |-> device_id,
                        constructor_ran |-> TRUE, raised |-> made.raised,
                        returned |-> 0])
    /\ UNCHANGED created
    /\ UNCHANGED <<parseVars, mainVars, invokeVars, genVars>>

\* Lines 179-187: the key is not in the cache and the constructor raises; the
\* assignment of line 183 does not happen and the exception leaves get_generator.
GetGeneratorRaises ==
    /\ Len(calls) < MaxCalls
    /\ \E task \in TaskInputs, ckpt_dir \in CkptInputs, device_id \in DeviceInputs :
          \E loads \in CanLoad(ckpt_dir) :
            LET key == cache_key(task, ckpt_dir, device_id)
                made == WanFastGenerator(task, ckpt_dir, device_id, loads, created + 1)
            IN  /\ key \notin DOMAIN MODEL_CACHE
                /\ made.raised # ""
                /\ calls' = Append(calls,
                       [task |-> task, ckpt_dir |-> ckpt_dir, device_id |-> device_id,
                        constructor_ran |-> TRUE, raised |-> made.raised,
                        returned |-> 0])
    /\ UNCHANGED <<MODEL_CACHE, created>>
    /\ UNCHANGED <<parseVars, mainVars, invokeVars, genVars>>

CacheNext == GetGeneratorCached \/ GetGeneratorCreates \/ GetGeneratorRaises

SpecCache == CacheInit /\ [][CacheNext]_vars

(***************************************************************************)
(* Properties of get_generator.                                            *)
(***************************************************************************)

SameArgs(a, b) ==
    a.task = b.task /\ a.ckpt_dir = b.ckpt_dir /\ a.device_id = b.device_id

\* The calls made with the arguments of call c on which the constructor ran to
\* its end.
Constructions(c) ==
    {j \in 1..Len(calls) :
        SameArgs(calls[j], c) /\ calls[j].constructor_ran /\ calls[j].raised = ""}

\* A call with the arguments of an earlier successful call returns the instance
\* that call returned.
SameArgsSameInstance ==
    \A j \in 1..Len(calls) : \A i \in 1..(j - 1) :
        (SameArgs(calls[i], calls[j]) /\ calls[i].raised = "") =>
            (calls[j].raised = "" /\ calls[j].returned = calls[i].returned)

\* Every instance a call stored is still the entry of its key.
EntriesKept ==
    \A i \in 1..Len(calls) :
        (calls[i].constructor_ran /\ calls[i].raised = "") =>
            LET key == cache_key(calls[i].task, calls[i].ckpt_dir, calls[i].device_id)
            IN  key \in DOMAIN MODEL_CACHE /\ MODEL_CACHE[key].id = calls[i].returned

\* C1: a call with the (task, ckpt_dir, device_id) of an earlier successful call
\* returns the identical instance, the constructor has run (to its end) exactly
\* once for the triple of every successful call, and no entry of the cache is
\* removed or replaced.
C1_OneInstancePerTriple ==
    /\ SameArgsSameInstance
    /\ \A i \in 1..Len(calls) :
          calls[i].raised = "" => Cardinality(Constructions(calls[i])) = 1
    /\ EntriesKept

\* C2: when the constructor raises inside get_generator, the exception leaves
\* get_generator, the cache is exactly as before the call with no entry under the
\* requested key, and a call made while the key has no entry runs the constructor.
C2_FailureLeavesCache ==
    [][Len(calls') = Len(calls) + 1 =>
         LET c == calls'[Len(calls')]
             key == cache_key(c.task, c.ckpt_dir, c.device_id)
         IN  /\ c.raised # "" =>
                   /\ c.constructor_ran
                   /\ c.returned = 0
                   /\ MODEL_CACHE' = MODEL_CACHE
                   /\ key \notin DOMAIN MODEL_CACHE'
             /\ key \notin DOMAIN MODEL_CACHE => c.constructor_ran]_vars

\* C2 witness: the checkpoint failed to load in a first call, and the second call,
\* with the same arguments, ran the constructor again and got a generator.
C2_Witness ==
    /\ Len(calls) = 2
    /\ SameArgs(calls[1], calls[2])
    /\ calls[1].raised = "LoadError"
    /\ calls[2].constructor_ran
    /\ calls[2].raised = ""
    /\ DOMAIN MODEL_CACHE # {}

(***************************************************************************)
(* generate_integrated_fast.py: WanFastGenerator.generate                  *)
(***************************************************************************)

\* wan.configs.SIZE_CONFIGS: size string -> resolution (of the library's sizes,
\* two).
SIZE_CONFIGS ==
    (<<"8", "3", "2", "*", "4", "8", "0">> :> <<832, 480>>)
    @@ (<<"4", "8", "0", "*", "8", "3", "2">> :> <<480, 832>>)

\* The size strings generate is called with: the keys and two strings that are
\* no key.
SizeInputs ==
    DOMAIN SIZE_CONFIGS \cup {<<"8", "3", "2", "x", "4", "8", "0">>, <<>>}

SeedInputs == {0 - 1, 7}

\* What random.randint(0, sys.maxsize) can draw, cut to two values.
RandomSeeds == {0, 41}

RefImageInputs == {None, <<"a", ",", "b">>}

SaveFileInputs == {None, <<"o", ".", "m", "p", "4">>}

PromptInputs == {<<"a", " ", "c", "/", "t">>}

\* datetime.now().strftime("%Y%m%d_%H%M%S")
Times == {<<"2", "0", "2", "5", "0", "1", "0", "1", "_", "0", "0", "0", "0", "0", "0">>}

RECURSIVE replace_char(_, _, _)
\* s.replace(old, new) for one-character old and new.
replace_char(s, old, new) ==
    IF s = <<>> THEN <<>>
    ELSE <<IF Head(s) = old THEN new ELSE Head(s)>> \o replace_char(Tail(s), old, new)

PromptCut == 50

\* Lines 148-150: the name of the output file when none is given.
default_save_file(task, size, prompt, time) ==
    LET replaced == replace_char(replace_char(prompt, " ", "_"), "/", "_")
        formatted_prompt == SubSeq(replaced, 1,
                                   IF Len(replaced) < PromptCut THEN Len(replaced)
                                   ELSE PromptCut)
    IN  task \o <<"_">> \o size \o <<"_">> \o formatted_prompt \o <<"_">> \o time
        \o <<".", "m", "p", "4">>

\* Lines 107-108.
seed_of(base_seed, drawn) == IF base_seed < 0 THEN drawn ELSE base_seed

\* Lines 113-117.
ref_images_list_of(src_ref_images) ==
    IF truthy(src_ref_images) THEN <<split(src_ref_images, <<",">>)>> ELSE None

\* SIZE_CONFIGS.get(size, SIZE_CONFIGS["832*480"]) in the place of SIZE_CONFIGS[size].
size_lookup_default(size) ==
    IF size \in DOMAIN SIZE_CONFIGS
    THEN [found |-> TRUE, value |-> SIZE_CONFIGS[size]]
    ELSE [found |-> TRUE, value |-> <<832, 480>>]

\* SIZE_CONFIGS[size] of line 125 and line 136: the resolution, or KeyError.
size_lookup(size) ==
    IF size \in DOMAIN SIZE_CONFIGS
    THEN [found |-> TRUE, value |-> SIZE_CONFIGS[size]]
    ELSE [found |-> FALSE, value |-> <<>>]

MaxGenerates == 2

\* The generators get_generator can have returned.
GenInit ==
    /\ self \in [task : {VACE_1_3B}, ckpt_dir : {<<"b">>}, device_id : DeviceInputs]
    /\ generates = <<>>
    /\ pipelineCalls = <<>>
    /\ written = <<>>
    /\ ParseIdle /\ MainIdle /\ InvokeIdle /\ CacheIdle

\* The record of a call of generate.
generate_call(size, base_seed, src_ref_images, save_file, outcome) ==
    [size |-> size, base_seed |-> base_seed, src_ref_images |-> src_ref_images,
     save_file |-> save_file, outcome |-> outcome]

\* Lines 120-127: the call of pipeline.prepare_source, made by call number `by`.
prepare_source_call(by, src_ref_images, size) ==
    [by |-> by, method |-> "prepare_source",
     ref_images |-> ref_images_list_of(src_ref_images),
     size |-> size_lookup(size).value, seed |-> 0 - 1]

\* Lines 131-144: the call of pipeline.generate.
pipeline_generate_call(by, size, seed) ==
    [by |-> by, method |-> "generate", ref_images |-> None,
     size |-> size_lookup(size).value, seed |-> seed]

\* Lines 105-127: size is no key of SIZE_CONFIGS, and evaluating the arguments of
\* pipeline.prepare_source raises KeyError.
GenerateUnknownSize ==
    /\ Len(generates) < MaxGenerates
    /\ \E size \in SizeInputs, base_seed \in SeedInputs,
          src_ref_images \in RefImageInputs, save_file \in SaveFileInputs :
          /\ ~size_lookup(size).found
          /\ generates' = Append(generates,
                 generate_call(size, base_seed, src_ref_images, save_file, "KeyError"))
    /\ UNCHANGED <<self, pipelineCalls, written>>
    /\ UNCHANGED <<parseVars, mainVars, invokeVars, cacheVars>>

\* Lines 105-127: pipeline.prepare_source raises.
GeneratePrepareRaises ==
    /\ Len(generates) < MaxGenerates
    /\ \E size \in SizeInputs, base_seed \in SeedInputs,
          src_ref_images \in RefImageInputs, save_file \in SaveFileInputs :
          /\ size_lookup(size).found
          /\ pipelineCalls' = Append(pipelineCalls,
                 prepare_source_call(Len(generates) + 1, src_ref_images, size))
          /\ generates' = Append(generates,
                 generate_call(size, base_seed, src_ref_images, save_file,
                               "PrepareError"))
    /\ UNCHANGED <<self, written>>
    /\ UNCHANGED <<parseVars, mainVars, invokeVars, cacheVars>>

\* Lines 105-144: pipeline.prepare_source returns and pipeline.generate raises.
GenerateInferenceRaises ==
    /\ Len(generates) < MaxGenerates
    /\ \E size \in SizeInputs, base_seed \in SeedInputs, drawn \in RandomSeeds,
          src_ref_images \in RefImageInputs, save_file \in SaveFileInputs :
          /\ size_lookup(size).found
          /\ pipelineCalls' = pipelineCalls \o
                 <<prepare_source_call(Len(generates) + 1, src_ref_images, size),
                   pipeline_generate_call(Len(generates) + 1, size,
                                          seed_of(base_seed, drawn))>>
          /\ generates' = Append(generates,
                 generate_call(size, base_seed, src_ref_images, save_file,
                               "GenerateError"))
    /\ UNCHANGED <<self, written>>
    /\ UNCHANGED <<parseVars, mainVars, invokeVars, cacheVars>>

\* Lines 105-163: both pipeline calls return and the video is saved.
GenerateSaves ==
    /\ Len(generates) < MaxGenerates
    /\ \E size \in SizeInputs, base_seed \in SeedInputs, drawn \in RandomSeeds,
          src_ref_images \in RefImageInputs, save_file \in SaveFileInputs,
          prompt \in PromptInputs, time \in Times :
          /\ size_lookup(size).found
          /\ pipelineCalls' = pipelineCalls \o
                 <<prepare_source_call(Len(generates) + 1, src_ref_images, size),
                   pipeline_generate_call(Len(generates) + 1, size,
                                          seed_of(base_seed, drawn))>>
          /\ written' = Append(written,
                 [by |-> Len(generates) + 1,
                  file |-> IF save_file = None
                           THEN default_save_file(self.task, size, prompt, time)
                           ELSE save_file])
          /\ generates' = Append(generates,
                 generate_call(size, base_seed, src_ref_images, save_file, "saved"))
    /\ UNCHANGED self
    /\ UNCHANGED <<parseVars, mainVars, invokeVars, cacheVars>>

GenNext ==
    \/ GenerateUnknownSize
    \/ GeneratePrepareRaises
    \/ GenerateInferenceRaises
    \/ GenerateSaves

SpecGen == GenInit /\ [][GenNext]_vars

(***************************************************************************)
(* Properties of WanFastGenerator.generate.                                *)
(***************************************************************************)

\* The pipeline calls that call number i of generate made.
PipelineCallsOf(i) ==
    {k \in 1..Len(pipelineCalls) : pipelineCalls[k].by = i}

\* C8: for a size string in SIZE_CONFIGS the resolution passed to
\* pipeline.prepare_source and to pipeline.generate is SIZE_CONFIGS[size]; for any
\* other size string generate fails with KeyError before either is called and
\* before any file is written.
C8_SizeResolvedOrKeyError ==
    \A i \in 1..Len(generates) :
        IF generates[i].size \in DOMAIN SIZE_CONFIGS
        THEN /\ generates[i].outcome # "KeyError"
             /\ \A k \in PipelineCallsOf(i) :
                   pipelineCalls[k].size = SIZE_CONFIGS[generates[i].size]
             /\ generates[i].outcome = "saved" =>
                   {pipelineCalls[k].method : k \in PipelineCallsOf(i)}
                       = {"prepare_source", "generate"}
        ELSE /\ generates[i].outcome = "KeyError"
             /\ PipelineCallsOf(i) = {}
             /\ \A k \in 1..Len(written) : written[k].by # i

\* C8 witness: generate was called with a non-empty size string that is no key of
\* SIZE_CONFIGS.
C8_Witness ==
    \E i \in 1..Len(generates) :
        /\ generates[i].size \notin DOMAIN SIZE_CONFIGS
        /\ generates[i].size # <<>>
        /\ generates[i].outcome = "KeyError"

====
